---- MODULE Spec2Model ----
(***************************************************************************)
(* A model of the `debounced` crate (src/src/lib.rs): Kenneth Kuhn's       *)
(* integration debouncer.  A Debouncer packs {state flag, init flag,       *)
(* integrator} into one Storage word; init / poll / deinit mutate it and   *)
(* a Debounced pin reads bit 0 of it.                                      *)
(***************************************************************************)
EXTENDS Integers, Sequences, FiniteSets, TLC

\* ------------------------------------------------------------------ bounds
\* Largest "ordinary" MAX_COUNT a policy is drawn with.
MaxCount == 3
\* Successful polls recorded since init when the application has one debouncer.
MaxTicks == 6
\* Successful polls recorded since init, over both, when it has two.
MaxTicksPair == 2

\* ------------------------------------------------------- program constants
\* type Storage = u8
StorageBits == 8

Modulus == 2 ^ StorageBits

\* The debouncers an application may declare (statics of the same Cfg type).
Engines == {"A", "B"}
\* Input pin handles the application owns and may move into a debouncer.
Pins == {"p1", "p2"}
\* Values of Pin::Error.
PinErrors == {"e1", "e2"}
\* MaybeUninit::uninit(): the pin slot holds no pin.
Uninit == "uninit"

\* MAX_COUNT values at the edge of what Storage can hold.
EdgeCounts == {2 ^ (StorageBits - 2) - 1, 2 ^ (StorageBits - 2), Modulus - 1}
MaxCounts == (1 .. MaxCount) \cup EdgeCounts

VARIABLES
    engines,  \* the debouncers this application declared
    cfg,      \* the Debounce policy: [MAX_COUNT, INIT_HIGH]
    storage,  \* storage[e]: the packed state word of debouncer e
    pin,      \* pin[e]: the pin slot of debouncer e (a pin handle or Uninit)
    views,    \* views[e]: number of live Debounced pins borrowing storage[e]
    given,    \* given[e]: the pin the latest successful init of e was called with
    log,      \* log[e]: per successful poll since init, the sample and the word after it
    calls,    \* calls[c]: the call in flight in execution context c, statement by statement
    last      \* the most recent call: what it was given, what it returned, what it saw

vars == <<engines, cfg, storage, pin, views, given, log, calls, last>>

\* --------------------------------------------- Storage arithmetic (u8 ops)
RECURSIVE BitAndN(_, _, _)
BitAndN(a, b, n) ==
    IF n = 0 THEN 0
    ELSE (a % 2) * (b % 2) + 2 * BitAndN(a \div 2, b \div 2, n - 1)

RECURSIVE BitOrN(_, _, _)
BitOrN(a, b, n) ==
    IF n = 0 THEN 0
    ELSE (IF (a % 2) + (b % 2) > 0 THEN 1 ELSE 0) + 2 * BitOrN(a \div 2, b \div 2, n - 1)

BitAnd(a, b) == BitAndN(a, b, StorageBits)
BitOr(a, b) == BitOrN(a, b, StorageBits)
BitNot(a) == Modulus - 1 - a
Shl(a, k) == (a * (2 ^ k)) % Modulus
Shr(a, k) == a \div (2 ^ k)
AddAssign(a, b) == (a + b) % Modulus
SubAssign(a, b) == (a - b + Modulus) % Modulus

\* ------------------------------------------------------------- DebounceExt
zero == 0
state_mask == 1
init_mask == Shl(1, 1)
integrator_one == Shl(1, 2)
integrator_mask == BitNot(SubAssign(integrator_one, 1))
\* A variant that forgets to scale MAX_COUNT to integrator units.
integrator_max_unscaled == cfg.MAX_COUNT

integrator_max == Shl(cfg.MAX_COUNT, 2)

\* ------------------------------------------------- Debouncer: word helpers
init_flag(state) == BitAnd(state, init_mask) /= zero

\* A variant that adds the mask instead of or-ing it in.
set_state_flag_adds(state) == AddAssign(state, state_mask)

set_state_flag(state) == BitOr(state, state_mask)

\* A variant that clears with the wrong mask.
clear_state_flag_wrong_mask(state) == BitAnd(state, BitNot(init_mask))

clear_state_flag(state) == BitAnd(state, BitNot(state_mask))

\* A variant that is off by one integrator unit.
integrator_is_zero_early(state) == BitAnd(state, integrator_mask) = integrator_one

integrator_is_zero(state) == BitAnd(state, integrator_mask) = zero

\* A variant that compares the whole word, flags included.
integrator_is_max_unmasked(state) == state = integrator_max

integrator_is_max(state) == BitAnd(state, integrator_mask) = integrator_max

\* A variant that restarts the count on a sample of the old state.
decrement_integrator_resets(state) == BitAnd(state, BitNot(integrator_mask))

decrement_integrator(state) ==
    IF ~integrator_is_zero(state) THEN SubAssign(state, integrator_one) ELSE state

\* A variant that does not saturate.
increment_integrator_unchecked(state) == AddAssign(state, integrator_one)

increment_integrator(state) ==
    IF ~integrator_is_max(state) THEN AddAssign(state, integrator_one) ELSE state

\* -------------------------------------------------------- Debounced reads
\* A variant that forgets the mask.
is_high_unmasked(state) == state /= zero

is_high(state) == BitAnd(state, state_mask) /= zero

is_low(state) == BitAnd(state, state_mask) = zero

\* ------------------------------------------------------------ observation
NoCall == [op |-> "uninit", eng |-> "none", arg |-> "none", res |-> "none",
           ret |-> "none", read |-> FALSE, before |-> "none"]

Before(e) == [storage |-> storage[e], pin |-> pin[e], views |-> views,
              words |-> storage, given |-> given[e], log |-> log[e],
              calls |-> calls]

RECURSIVE SumLen(_)
SumLen(S) ==
    IF S = {} THEN 0
    ELSE LET e == CHOOSE x \in S : TRUE IN Len(log[e]) + SumLen(S \ {e})

\* Where calls are made from: main application code and the interrupt
\* service routine.
Contexts == {"main", "isr"}

\* An is_low() answer not yet asked for.
NoAnswer == [ok |-> TRUE, val |-> FALSE, err |-> "none", high |-> FALSE]

\* No call in flight.
Idle == [op |-> "idle", eng |-> "none", pc |-> 0, arg |-> "none", r |-> NoAnswer,
         sampled |-> FALSE, tmp |-> 0, taken |-> "none", before |-> "none"]

TickBudget == IF Cardinality(engines) = 1 THEN MaxTicks ELSE MaxTicksPair

\* What Pin::is_low() can answer (ok, val, err), with what the same pin would
\* answer to is_high() at that moment (high).
IsLowResults ==
    {[ok |-> TRUE, val |-> b, err |-> "none", high |-> h] : b \in BOOLEAN, h \in BOOLEAN}
        \cup {[ok |-> FALSE, val |-> FALSE, err |-> x, high |-> FALSE] : x \in PinErrors}

\* -------------------------------------------------------------------- Init
Init ==
    /\ engines \in {{"A"}, Engines}
    /\ cfg \in [MAX_COUNT : MaxCounts, INIT_HIGH : BOOLEAN]
    /\ storage = [e \in engines |-> zero]
    /\ pin = [e \in engines |-> Uninit]
    /\ views = [e \in engines |-> 0]
    /\ given = [e \in engines |-> "none"]
    /\ log = [e \in engines |-> <<>>]
    /\ calls = [c \in Contexts |-> Idle]
    /\ last = NoCall

\* ---------------------------------------------------------- Debouncer::init
\* A variant whose shifts are evaluated in a wider integer than Storage.
max_count_fits_unwrapped == (cfg.MAX_COUNT * 4) \div 4 = cfg.MAX_COUNT

\* assert!((Cfg::MAX_COUNT << 2) >> 2 == Cfg::MAX_COUNT)
max_count_fits == Shr(Shl(cfg.MAX_COUNT, 2), 2) = cfg.MAX_COUNT

\* A variant that sets the flag for INIT_HIGH but leaves the integrator at 0.
init_linted_flag_only(state, slot, p) ==
    IF init_flag(state)
    THEN [storage |-> state, pin |-> slot, res |-> "InitError", view |-> FALSE]
    ELSE [storage |-> BitOr(IF cfg.INIT_HIGH THEN state_mask ELSE zero, init_mask),
          pin |-> p, res |-> "Ok", view |-> TRUE]

\* A variant without the once-only check.
init_linted_unchecked(state, slot, p) ==
    [storage |-> BitOr(IF cfg.INIT_HIGH
                       THEN BitOr(state_mask, integrator_max)
                       ELSE zero,
                       init_mask),
     pin |-> p, res |-> "Ok", view |-> TRUE]

\* init_linted on a debouncer whose word is `state` and pin slot is `slot`,
\* given the input pin p: the word and slot it leaves, and what it returns.
init_linted(state, slot, p) ==
    IF init_flag(state)
    THEN [storage |-> state, pin |-> slot, res |-> "InitError", view |-> FALSE]
    ELSE LET new_state ==
                 BitOr(IF cfg.INIT_HIGH
                       THEN BitOr(state_mask, integrator_max)
                       ELSE zero,
                       init_mask)
         IN [storage |-> new_state, pin |-> p, res |-> "Ok", view |-> TRUE]

init_call(state, slot, p) ==
    IF ~max_count_fits
    THEN [storage |-> state, pin |-> slot, res |-> "panic", view |-> FALSE]
    ELSE init_linted(state, slot, p)

init(e, p) ==
    /\ p \notin {pin[f] : f \in engines}
    /\ LET out == init_call(storage[e], pin[e], p)
       IN /\ storage' = [storage EXCEPT ![e] = out.storage]
          /\ pin' = [pin EXCEPT ![e] = out.pin]
          /\ views' = [views EXCEPT ![e] = IF out.view THEN @ + 1 ELSE @]
          /\ given' = [given EXCEPT ![e] = IF out.res = "Ok" THEN p ELSE @]
          /\ log' = [log EXCEPT ![e] = IF out.res = "Ok" THEN <<>> ELSE @]
          /\ last' = [op |-> "init", eng |-> e, arg |-> p, res |-> out.res,
                      ret |-> IF out.view THEN e ELSE "none", read |-> FALSE,
                      before |-> Before(e)]
    /\ UNCHANGED <<engines, cfg, calls>>

\* ---------------------------------------------------------- Debouncer::poll
\* The update of a successful read (the two arms of the `if pin.is_low()`).
\* A variant that marks the transition on the first sample of the new state.
poll_update_eager(state, low) ==
    IF low
    THEN clear_state_flag(decrement_integrator(state))
    ELSE set_state_flag(increment_integrator(state))

\* A variant with the two arms exchanged.
poll_update_swapped(state, low) ==
    IF ~low
    THEN LET s1 == decrement_integrator(state)
         IN IF integrator_is_zero(s1) THEN clear_state_flag(s1) ELSE s1
    ELSE LET s1 == increment_integrator(state)
         IN IF integrator_is_max(s1) THEN set_state_flag(s1) ELSE s1

\* A variant whose not-low arm counts up but never sets the flag.
poll_update_never_sets(state, low) ==
    IF low
    THEN LET s1 == decrement_integrator(state)
         IN IF integrator_is_zero(s1) THEN clear_state_flag(s1) ELSE s1
    ELSE increment_integrator(state)

poll_update(state, low) ==
    IF low
    THEN LET s1 == decrement_integrator(state)
         IN IF integrator_is_zero(s1) THEN clear_state_flag(s1) ELSE s1
    ELSE LET s1 == increment_integrator(state)
         IN IF integrator_is_max(s1) THEN set_state_flag(s1) ELSE s1

\* A variant that samples the pin before it looks at the init flag.
poll_linted_read_first(state, r) ==
    IF ~r.ok
    THEN [storage |-> state, res |-> "PollError::Pin", err |-> r.err, read |-> TRUE]
    ELSE IF ~init_flag(state)
    THEN [storage |-> state, res |-> "PollError::Init", err |-> "none", read |-> TRUE]
    ELSE [storage |-> poll_update(state, r.val), res |-> "Ok", err |-> "none",
          read |-> TRUE]

\* A variant that restarts the integration when the pin read fails.
poll_linted_error_resets(state, r) ==
    IF ~init_flag(state)
    THEN [storage |-> state, res |-> "PollError::Init", err |-> "none", read |-> FALSE]
    ELSE IF ~r.ok
    THEN [storage |-> BitAnd(state, BitNot(integrator_mask)),
          res |-> "PollError::Pin", err |-> r.err, read |-> TRUE]
    ELSE [storage |-> poll_update(state, r.val), res |-> "Ok", err |-> "none",
          read |-> TRUE]

\* A variant that counts up only when the pin also answers is_high().
poll_linted_checks_high(state, r) ==
    IF ~init_flag(state)
    THEN [storage |-> state, res |-> "PollError::Init", err |-> "none", read |-> FALSE]
    ELSE IF ~r.ok
    THEN [storage |-> state, res |-> "PollError::Pin", err |-> r.err, read |-> TRUE]
    ELSE [storage |-> IF r.val \/ r.high THEN poll_update(state, r.val) ELSE state,
          res |-> "Ok", err |-> "none", read |-> TRUE]

\* poll_linted on word `state` when pin.is_low() would answer r.
poll_linted(state, r) ==
    IF ~init_flag(state)
    THEN [storage |-> state, res |-> "PollError::Init", err |-> "none", read |-> FALSE]
    ELSE IF ~r.ok
    THEN [storage |-> state, res |-> "PollError::Pin", err |-> r.err, read |-> TRUE]
    ELSE [storage |-> poll_update(state, r.val), res |-> "Ok", err |-> "none",
          read |-> TRUE]

poll(e) ==
    \E r \in IsLowResults :
        LET out == poll_linted(storage[e], r)
        IN /\ out.res = "Ok" => SumLen(engines) < TickBudget
           /\ storage' = [storage EXCEPT ![e] = out.storage]
           /\ log' = [log EXCEPT ![e] =
                         IF out.res = "Ok"
                         THEN Append(@, [low |-> r.val, word |-> out.storage])
                         ELSE @]
           /\ last' = [op |-> "poll", eng |-> e,
                       arg |-> IF out.read THEN r ELSE "none",
                       res |-> out.res, ret |-> out.err, read |-> out.read,
                       before |-> Before(e)]
           /\ UNCHANGED <<engines, cfg, pin, views, given, calls>>

\* -------------------------------------------------------- Debouncer::deinit
\* A variant that does not compare the storage pointers.
deinit_linted_any_view(state, slot, e, f) ==
    IF ~init_flag(state)
    THEN [storage |-> state, pin |-> slot, res |-> "DeinitError::Init",
          ret |-> "none", consumed |-> TRUE]
    ELSE [storage |-> zero, pin |-> Uninit, res |-> "Ok",
          ret |-> slot, consumed |-> TRUE]

\* A variant that clears the init flag alone.
deinit_linted_clears_init_only(state, slot, e, f) ==
    IF ~init_flag(state)
    THEN [storage |-> state, pin |-> slot, res |-> "DeinitError::Init",
          ret |-> "none", consumed |-> TRUE]
    ELSE IF e /= f
    THEN [storage |-> state, pin |-> slot, res |-> "DeinitError::Pin",
          ret |-> f, consumed |-> FALSE]
    ELSE [storage |-> BitAnd(state, BitNot(init_mask)), pin |-> Uninit, res |-> "Ok",
          ret |-> slot, consumed |-> TRUE]

\* A variant that hands the pin back without resetting the word.
deinit_linted_keeps_word(state, slot, e, f) ==
    IF ~init_flag(state)
    THEN [storage |-> state, pin |-> slot, res |-> "DeinitError::Init",
          ret |-> "none", consumed |-> TRUE]
    ELSE IF e /= f
    THEN [storage |-> state, pin |-> slot, res |-> "DeinitError::Pin",
          ret |-> f, consumed |-> FALSE]
    ELSE [storage |-> state, pin |-> Uninit, res |-> "Ok",
          ret |-> slot, consumed |-> TRUE]

\* A variant that compares the storage pointers before it looks at the init
\* flag.
deinit_linted_match_first(state, slot, e, f) ==
    IF e /= f
    THEN [storage |-> state, pin |-> slot, res |-> "DeinitError::Pin",
          ret |-> f, consumed |-> FALSE]
    ELSE IF ~init_flag(state)
    THEN [storage |-> state, pin |-> slot, res |-> "DeinitError::Init",
          ret |-> "none", consumed |-> TRUE]
    ELSE [storage |-> zero, pin |-> Uninit, res |-> "Ok",
          ret |-> slot, consumed |-> TRUE]

\* A variant that zeroes the word before it compares the storage pointers.
deinit_linted_zeroes_first(state, slot, e, f) ==
    IF ~init_flag(state)
    THEN [storage |-> state, pin |-> slot, res |-> "DeinitError::Init",
          ret |-> "none", consumed |-> TRUE]
    ELSE IF e /= f
    THEN [storage |-> zero, pin |-> slot, res |-> "DeinitError::Pin",
          ret |-> f, consumed |-> FALSE]
    ELSE [storage |-> zero, pin |-> Uninit, res |-> "Ok",
          ret |-> slot, consumed |-> TRUE]

\* A variant that takes the Debounced pin by reference and leaves it live.
deinit_linted_borrows_view(state, slot, e, f) ==
    IF ~init_flag(state)
    THEN [storage |-> state, pin |-> slot, res |-> "DeinitError::Init",
          ret |-> "none", consumed |-> FALSE]
    ELSE IF e /= f
    THEN [storage |-> state, pin |-> slot, res |-> "DeinitError::Pin",
          ret |-> f, consumed |-> FALSE]
    ELSE [storage |-> zero, pin |-> Uninit, res |-> "Ok",
          ret |-> slot, consumed |-> FALSE]

\* deinit_linted on debouncer e (word `state`, pin slot `slot`) given a
\* Debounced pin that borrows the storage of debouncer f.
deinit_linted(state, slot, e, f) ==
    IF ~init_flag(state)
    THEN [storage |-> state, pin |-> slot, res |-> "DeinitError::Init",
          ret |-> "none", consumed |-> TRUE]
    ELSE IF e /= f
    THEN [storage |-> state, pin |-> slot, res |-> "DeinitError::Pin",
          ret |-> f, consumed |-> FALSE]
    ELSE [storage |-> zero, pin |-> Uninit, res |-> "Ok",
          ret |-> slot, consumed |-> TRUE]

deinit(e, f) ==
    /\ views[f] > 0
    /\ LET out == deinit_linted(storage[e], pin[e], e, f)
       IN /\ storage' = [storage EXCEPT ![e] = out.storage]
          /\ pin' = [pin EXCEPT ![e] = out.pin]
          /\ views' = [views EXCEPT ![f] = IF out.consumed THEN @ - 1 ELSE @]
          /\ log' = [log EXCEPT ![e] = IF out.res = "Ok" THEN <<>> ELSE @]
          /\ last' = [op |-> "deinit", eng |-> e, arg |-> f, res |-> out.res,
                      ret |-> out.ret, read |-> FALSE, before |-> Before(e)]
    /\ UNCHANGED <<engines, cfg, given, calls>>

\* ------------------------------------------- Debounced: InputPin for a view
\* A variant that answers from the pin itself instead of the state word.
Debounced_is_high_samples_pin(e) ==
    /\ views[e] > 0
    /\ \E r \in {x \in IsLowResults : x.ok} :
          last' = [op |-> "is_high", eng |-> e, arg |-> "none", res |-> "Ok",
                   ret |-> r.high, read |-> TRUE, before |-> Before(e)]
    /\ UNCHANGED <<engines, cfg, storage, pin, views, given, log, calls>>

Debounced_is_high(e) ==
    /\ views[e] > 0
    /\ last' = [op |-> "is_high", eng |-> e, arg |-> "none", res |-> "Ok",
                ret |-> is_high(storage[e]), read |-> FALSE, before |-> Before(e)]
    /\ UNCHANGED <<engines, cfg, storage, pin, views, given, log, calls>>

Debounced_is_low(e) ==
    /\ views[e] > 0
    /\ last' = [op |-> "is_low", eng |-> e, arg |-> "none", res |-> "Ok",
                ret |-> is_low(storage[e]), read |-> FALSE, before |-> Before(e)]
    /\ UNCHANGED <<engines, cfg, storage, pin, views, given, log, calls>>

\* -------------------------------------------------------------------- Next
Next ==
    \/ \E e \in engines, p \in Pins : init(e, p)
    \/ \E e \in engines : poll(e)
    \/ \E e \in engines, f \in engines : deinit(e, f)
    \/ \E e \in engines : Debounced_is_high(e)
    \/ \E e \in engines : Debounced_is_low(e)

Spec == Init /\ [][Next]_vars

\* The callers keep calling: some operation is always eventually performed.
SpecLive == Spec /\ WF_vars(Next)

\* ------------------------------------------------- polling without an end
\* One debouncer polled for as long as the callers like. The record of polls
\* keeps the last MAX_COUNT successful ones.
Recent(s) == IF Len(s) > cfg.MAX_COUNT THEN Tail(s) ELSE s

poll_recent(e) ==
    \E r \in IsLowResults :
        LET out == poll_linted(storage[e], r)
        IN /\ storage' = [storage EXCEPT ![e] = out.storage]
           /\ log' = [log EXCEPT ![e] =
                         IF out.res = "Ok"
                         THEN Recent(Append(@, [low |-> r.val, word |-> out.storage]))
                         ELSE @]
           /\ last' = [op |-> "poll", eng |-> e,
                       arg |-> IF out.read THEN r ELSE NoAnswer,
                       res |-> out.res, ret |-> out.err, read |-> out.read,
                       before |-> Before(e)]
           /\ UNCHANGED <<engines, cfg, pin, views, given, calls>>

RecentInit ==
    /\ engines = {"A"}
    /\ cfg \in [MAX_COUNT : 1 .. MaxCount, INIT_HIGH : BOOLEAN]
    /\ storage = [e \in engines |-> zero]
    /\ pin = [e \in engines |-> Uninit]
    /\ views = [e \in engines |-> 0]
    /\ given = [e \in engines |-> "none"]
    /\ log = [e \in engines |-> <<>>]
    /\ calls = [c \in Contexts |-> Idle]
    /\ last = NoCall

RecentNext ==
    \/ \E e \in engines, p \in Pins : init(e, p)
    \/ \E e \in engines : poll_recent(e)
    \/ \E e \in engines, f \in engines : deinit(e, f)
    \/ \E e \in engines : Debounced_is_high(e)
    \/ \E e \in engines : Debounced_is_low(e)

\* poll is called on a regular basis: it is not put off for ever.
SpecRecent ==
    RecentInit /\ [][RecentNext]_vars /\ WF_vars(\E e \in engines : poll_recent(e))

\* ------------------------------------------------ the calls, statement by statement
\* What pin.is_low() can answer to a poll run statement by statement, where
\* is_high() is not asked.
IsLowAnswers == {x \in IsLowResults : ~x.high}

\* The loads and stores of each call in program order. A check that fails
\* returns at once; integrator_check skips the read-modify-write when the
\* integrator is saturated and saturation_check skips the flag update when it
\* is not.

\* A variant that stores the state word before it writes the pin.
init_steps_state_first ==
    <<"assert", "init_flag", "store_state", "write_pin", "return">>

init_steps == <<"assert", "init_flag", "write_pin", "store_state", "return">>

\* A variant that updates the flag before the integrator.
poll_steps_flag_first ==
    <<"init_flag", "is_low", "saturation_check", "flag_load", "flag_store",
      "integrator_check", "integrator_load", "integrator_store", "return">>

poll_steps ==
    <<"init_flag", "is_low", "integrator_check", "integrator_load", "integrator_store",
      "saturation_check", "flag_load", "flag_store", "return">>

deinit_steps ==
    <<"init_flag", "compare_storage", "store_zero", "read_pin", "clear_pin", "return">>

Steps(op) ==
    IF op = "init" THEN init_steps
    ELSE IF op = "poll" THEN poll_steps
    ELSE deinit_steps

\* let mut new_state = ...; new_state |= Cfg::init_mask();
new_state ==
    BitOr(IF cfg.INIT_HIGH THEN BitOr(state_mask, integrator_max) ELSE zero, init_mask)

\* A variant that checks saturation at zero only.
saturated_at_zero_only(state, low) == low /\ integrator_is_zero(state)

\* The integrator is saturated in the direction of the sample.
saturated(state, low) ==
    IF low THEN integrator_is_zero(state) ELSE integrator_is_max(state)

\* What the statement `lab` of call k does when the word is w, the pin slot
\* holds `slot` and (for is_low) the pin answers r: the word and slot it
\* leaves, the call's locals, and either how many statements to move on
\* (jump) or, with jump = 0, what the call returns.
Effect(k, lab, w, slot, r) ==
    LET go == [word |-> w, slot |-> slot, tmp |-> k.tmp, taken |-> k.taken,
               r |-> k.r, sampled |-> k.sampled, jump |-> 1,
               res |-> "none", ret |-> "none"]
        return(res, ret) == [go EXCEPT !.jump = 0, !.res = res, !.ret = ret]
    IN IF k.op = "init" THEN
           IF lab = "assert"
           THEN (IF max_count_fits THEN go ELSE return("panic", "none"))
           ELSE IF lab = "init_flag"
           THEN (IF init_flag(w) THEN return("InitError", "none") ELSE go)
           ELSE IF lab = "write_pin" THEN [go EXCEPT !.slot = k.arg]
           ELSE IF lab = "store_state" THEN [go EXCEPT !.word = new_state]
           ELSE return("Ok", k.eng)
       ELSE IF k.op = "poll" THEN
           IF lab = "init_flag"
           THEN (IF init_flag(w) THEN go ELSE return("PollError::Init", "none"))
           ELSE IF lab = "is_low"
           THEN (IF r.ok
                 THEN [go EXCEPT !.r = r, !.sampled = TRUE]
                 ELSE [return("PollError::Pin", r.err) EXCEPT !.r = r, !.sampled = TRUE])
           ELSE IF lab = "integrator_check"
           THEN [go EXCEPT !.jump = IF saturated(w, k.r.val) THEN 3 ELSE 1]
           ELSE IF lab = "integrator_load" THEN [go EXCEPT !.tmp = w]
           ELSE IF lab = "integrator_store"
           THEN [go EXCEPT !.word = IF k.r.val
                                    THEN SubAssign(k.tmp, integrator_one)
                                    ELSE AddAssign(k.tmp, integrator_one),
                           !.tmp = 0]
           ELSE IF lab = "saturation_check"
           THEN [go EXCEPT !.jump = IF saturated(w, k.r.val) THEN 1 ELSE 3]
           ELSE IF lab = "flag_load" THEN [go EXCEPT !.tmp = w]
           ELSE IF lab = "flag_store"
           THEN [go EXCEPT !.word = IF k.r.val
                                    THEN clear_state_flag(k.tmp)
                                    ELSE set_state_flag(k.tmp),
                           !.tmp = 0]
           ELSE return("Ok", "none")
       ELSE
           IF lab = "init_flag"
           THEN (IF init_flag(w) THEN go ELSE return("DeinitError::Init", "none"))
           ELSE IF lab = "compare_storage"
           THEN (IF k.eng = k.arg THEN go ELSE return("DeinitError::Pin", k.arg))
           ELSE IF lab = "store_zero" THEN [go EXCEPT !.word = zero]
           ELSE IF lab = "read_pin" THEN [go EXCEPT !.taken = slot]
           ELSE IF lab = "clear_pin" THEN [go EXCEPT !.slot = Uninit]
           ELSE return("Ok", k.taken)

AllIdle == \A c \in DOMAIN calls : calls[c] = Idle

\* Context c enters init / poll / deinit on debouncer e. What was observed
\* before the call was entered is forgotten; the snapshot taken at entry
\* leaves out the calls in flight.
Begin(c, op, e, arg) ==
    /\ calls[c] = Idle
    /\ calls' = [calls EXCEPT ![c] =
                    [Idle EXCEPT !.op = op, !.eng = e, !.pc = 1, !.arg = arg,
                                 !.before = [Before(e) EXCEPT !.calls = "none"]]]
    /\ last' = NoCall
    /\ UNCHANGED <<engines, cfg, storage, pin, given, log>>

begin_init(c, e, p) ==
    /\ p \notin {pin[f] : f \in engines}
    /\ \A d \in DOMAIN calls : ~(calls[d].op = "init" /\ calls[d].arg = p)
    /\ Begin(c, "init", e, p)
    /\ UNCHANGED views

begin_poll(c, e) == Begin(c, "poll", e, "none") /\ UNCHANGED views

\* Context c enters poll on debouncer e, possibly while another poll is in
\* flight; no snapshot is taken.
enter_poll(c, e) ==
    /\ calls[c] = Idle
    /\ calls' = [calls EXCEPT ![c] = [Idle EXCEPT !.op = "poll", !.eng = e, !.pc = 1]]
    /\ last' = NoCall
    /\ UNCHANGED <<engines, cfg, storage, pin, views, given, log>>

\* The Debounced pin is passed by value: from here on the caller has none.
begin_deinit(c, e, f) ==
    /\ views[f] > 0
    /\ views' = [views EXCEPT ![f] = @ - 1]
    /\ Begin(c, "deinit", e, f)

\* Context c executes the next statement of its call.
step(c) ==
    LET k == calls[c]
        lab == Steps(k.op)[k.pc]
    IN /\ k /= Idle
       /\ \E r \in (IF k.op = "poll" /\ lab = "is_low" THEN IsLowAnswers ELSE {NoAnswer}) :
             LET eff == Effect(k, lab, storage[k.eng], pin[k.eng], r)
                 n == Len(Steps(k.op))
             IN /\ storage' = [storage EXCEPT ![k.eng] = eff.word]
                /\ pin' = [pin EXCEPT ![k.eng] = eff.slot]
                /\ IF eff.jump = 0
                   THEN /\ calls' = [calls EXCEPT ![c] = Idle]
                        /\ last' = [op |-> k.op, eng |-> k.eng,
                                    arg |-> IF k.op = "poll"
                                            THEN (IF eff.sampled THEN eff.r ELSE "none")
                                            ELSE k.arg,
                                    res |-> eff.res, ret |-> eff.ret,
                                    read |-> eff.sampled, before |-> k.before]
                        /\ views' =
                              IF k.op = "init" /\ eff.res = "Ok"
                              THEN [views EXCEPT ![k.eng] = @ + 1]
                              ELSE IF k.op = "deinit" /\ eff.res = "DeinitError::Pin"
                              THEN [views EXCEPT ![k.arg] = @ + 1]
                              ELSE views
                        /\ given' =
                              IF k.op = "init" /\ eff.res = "Ok"
                              THEN [given EXCEPT ![k.eng] = k.arg]
                              ELSE given
                   ELSE /\ calls' = [calls EXCEPT ![c] =
                                        [k EXCEPT !.pc = IF k.pc + eff.jump > n
                                                         THEN n ELSE k.pc + eff.jump,
                                                  !.tmp = eff.tmp, !.taken = eff.taken,
                                                  !.r = eff.r, !.sampled = eff.sampled]]
                        /\ UNCHANGED <<views, given, last>>
       /\ UNCHANGED <<engines, cfg, log>>

\* One writer at a time (the non-reentrancy contract honoured), any number of
\* Debounced reads in between its statements.
StepsNext ==
    \/ \E c \in Contexts, e \in engines, p \in Pins : AllIdle /\ begin_init(c, e, p)
    \/ \E c \in Contexts, e \in engines : AllIdle /\ begin_poll(c, e)
    \/ \E c \in Contexts, e \in engines, f \in engines : AllIdle /\ begin_deinit(c, e, f)
    \/ \E c \in Contexts : step(c)
    \/ \E e \in engines : Debounced_is_high(e)
    \/ \E e \in engines : Debounced_is_low(e)

StepsInit == Init /\ engines = {"A"}

SpecSteps == StepsInit /\ [][StepsNext]_vars

\* -------------------------------------------------- overlapping calls to poll
\* The unsafe methods are called from the interrupt service routine alone, or
\* from main code as well. With two callers a poll may be entered while
\* another poll is in flight; init and deinit are still entered alone. No
\* poll is entered once the integrator is above integrator_max.
OverlapInit ==
    /\ engines = {"A"}
    /\ cfg \in [MAX_COUNT : 1 .. MaxCount, INIT_HIGH : BOOLEAN]
    /\ storage = [e \in engines |-> zero]
    /\ pin = [e \in engines |-> Uninit]
    /\ views = [e \in engines |-> 0]
    /\ given = [e \in engines |-> "none"]
    /\ log = [e \in engines |-> <<>>]
    /\ calls \in {[c \in D |-> Idle] : D \in {{"isr"}, Contexts}}
    /\ last = NoCall

OverlapNext ==
    \/ \E c \in DOMAIN calls, e \in engines, p \in Pins : AllIdle /\ begin_init(c, e, p)
    \/ \E c \in DOMAIN calls, e \in engines :
          /\ Shr(storage[e], 2) <= cfg.MAX_COUNT
          /\ enter_poll(c, e)
    \/ \E c \in DOMAIN calls, e \in engines, f \in engines : AllIdle /\ begin_deinit(c, e, f)
    \/ \E c \in DOMAIN calls : step(c)

SpecOverlap == OverlapInit /\ [][OverlapNext]_vars

\* ------------------------------------------------ reading the state word
\* The three fields of a packed word, by position (bit 0, bit 1, bits 2..).
FlagBit(w) == w % 2
InitBit(w) == (w \div 2) % 2
IntegratorField(w) == w \div 4

Min(a, b) == IF a < b THEN a ELSE b
Max(a, b) == IF a > b THEN a ELSE b

\* A policy the crate accepts: MAX_COUNT non-zero and two bits narrower than Storage.
ValidPolicy == cfg.MAX_COUNT >= 1 /\ cfg.MAX_COUNT < 2 ^ (StorageBits - 2)

\* The integrator count and the flag a fresh init is documented to start from.
InitAcc == IF cfg.INIT_HIGH THEN cfg.MAX_COUNT ELSE 0
InitHigh == cfg.INIT_HIGH

\* The saturating accumulator clamped to [0, MAX_COUNT], after the first n
\* recorded samples of debouncer e.
RECURSIVE RefAcc(_, _)
RefAcc(e, n) ==
    IF n = 0 THEN InitAcc
    ELSE IF log[e][n].low THEN Max(0, RefAcc(e, n - 1) - 1)
    ELSE Min(cfg.MAX_COUNT, RefAcc(e, n - 1) + 1)

\* Whether the view was high after the first n recorded polls of e.
HighAt(e, n) == IF n = 0 THEN InitHigh ELSE FlagBit(log[e][n].word) = 1
\* The integrator count after the first n recorded polls of e.
CountAt(e, n) == IF n = 0 THEN InitAcc ELSE IntegratorField(log[e][n].word)

Initialized(e) == InitBit(storage[e]) = 1

\* ------------------------------------------------------------------ claims

\* C1: with INIT_HIGH = false, after init and n successful polls whose samples
\* are all not low, the view is high exactly when n >= MAX_COUNT (low after
\* 0 .. MAX_COUNT-1 of them, high after MAX_COUNT).
C1_HighAfterMaxCountSamples ==
    \A e \in engines :
        (/\ ValidPolicy
         /\ ~cfg.INIT_HIGH
         /\ Initialized(e)
         /\ \A i \in 1 .. Len(log[e]) : ~log[e][i].low)
        => /\ (FlagBit(storage[e]) = 1) <=> (Len(log[e]) >= cfg.MAX_COUNT)
           /\ \A i \in 1 .. Len(log[e]) : HighAt(e, i) <=> (i >= cfg.MAX_COUNT)

C1_Witness ==
    /\ ~cfg.INIT_HIGH
    /\ cfg.MAX_COUNT = 3
    /\ Initialized("A")
    /\ Len(log["A"]) = 3
    /\ \A i \in 1 .. 3 : ~log["A"][i].low
    /\ ~HighAt("A", 2)
    /\ FlagBit(storage["A"]) = 1

\* The net count of new-state samples minus old-state samples over polls
\* t+1 .. n of e, where the new state is "high" iff newHigh.
RECURSIVE NetDiff(_, _, _, _)
NetDiff(e, t, n, newHigh) ==
    IF n <= t THEN 0
    ELSE NetDiff(e, t, n - 1, newHigh)
         + (IF log[e][n].low = newHigh THEN -1 ELSE 1)

\* t is where the view last changed before poll n (or the init, t = 0).
LastTransition(e, t, n) ==
    /\ t < n
    /\ t = 0 \/ HighAt(e, t) /= HighAt(e, t - 1)
    /\ \A j \in t + 1 .. n - 1 : HighAt(e, j) = HighAt(e, t)

\* C2: with INIT_HIGH = false the integrator equals the accumulator clamped to
\* [0, MAX_COUNT] driven by the recorded samples, the view is high exactly from
\* the first poll at which that accumulator reaches MAX_COUNT, and whenever the
\* unclamped new-minus-old difference since the last transition reaches
\* MAX_COUNT the transition has been marked.
C2_IntegratorIsClampedAccumulator ==
    \A e \in engines :
        (ValidPolicy /\ ~cfg.INIT_HIGH /\ Initialized(e))
        => /\ IntegratorField(storage[e]) = RefAcc(e, Len(log[e]))
           /\ \A n \in 1 .. Len(log[e]) :
                 /\ CountAt(e, n) = RefAcc(e, n)
                 /\ (\A j \in 1 .. n : RefAcc(e, j) < cfg.MAX_COUNT) => ~HighAt(e, n)
                 /\ (/\ RefAcc(e, n) = cfg.MAX_COUNT
                     /\ \A j \in 1 .. n - 1 : RefAcc(e, j) < cfg.MAX_COUNT)
                    => HighAt(e, n)
                 /\ \A t \in 0 .. n - 1 :
                       (/\ LastTransition(e, t, n)
                        /\ NetDiff(e, t, n, ~HighAt(e, t)) >= cfg.MAX_COUNT)
                       => HighAt(e, n) /= HighAt(e, t)

\* A decrement interrupts the run and the view still goes high when the
\* clamped accumulator reaches MAX_COUNT, later than MAX_COUNT polls.
C2_Witness ==
    /\ ~cfg.INIT_HIGH
    /\ cfg.MAX_COUNT = 3
    /\ Initialized("A")
    /\ Len(log["A"]) = 5
    /\ log["A"][3].low
    /\ \A i \in {1, 2, 4, 5} : ~log["A"][i].low
    /\ ~HighAt("A", 4)
    /\ FlagBit(storage["A"]) = 1
    /\ RefAcc("A", 5) = 3

\* C3: the integrator field of every debouncer's word stays within
\* [0, integrator_max]; a not-low sample at integrator_max leaves it there and
\* a low sample at 0 leaves it at 0.
C3_IntegratorWithinBounds ==
    \A e \in engines :
        ValidPolicy
        => /\ IntegratorField(storage[e]) >= 0
           /\ Shr(storage[e], 2) <= cfg.MAX_COUNT
           /\ (last.op = "poll" /\ last.eng = e /\ last.res = "Ok")
              => /\ (IntegratorField(last.before.storage) = cfg.MAX_COUNT /\ ~last.arg.val)
                    => IntegratorField(storage[e]) = cfg.MAX_COUNT
                 /\ (IntegratorField(last.before.storage) = 0 /\ last.arg.val)
                    => IntegratorField(storage[e]) = 0

\* A not-low sample arrived at integrator_max, after a low one arrived at 0.
C3_Witness ==
    /\ cfg.MAX_COUNT = 2
    /\ last.op = "poll" /\ last.eng = "A" /\ last.res = "Ok"
    /\ ~last.arg.val
    /\ IntegratorField(last.before.storage) = cfg.MAX_COUNT
    /\ IntegratorField(storage["A"]) = cfg.MAX_COUNT
    /\ \E i \in 1 .. Len(log["A"]) :
          log["A"][i].low /\ CountAt("A", i - 1) = 0 /\ CountAt("A", i) = 0

\* C4: a poll changes the logical-state flag only at saturation: if the flag
\* after a successful poll differs from the flag before it, the integrator is
\* now integrator_max (flag 0 -> 1) or 0 (flag 1 -> 0).
C4_FlagChangesOnlyAtSaturation ==
    /\ (last.op = "poll" /\ last.res = "Ok" /\ ValidPolicy)
       => LET before == last.before.storage
              after == storage[last.eng]
          IN /\ FlagBit(before) /= FlagBit(after)
                => \/ FlagBit(after) = 1 /\ IntegratorField(after) = cfg.MAX_COUNT
                   \/ FlagBit(after) = 0 /\ IntegratorField(after) = 0
             /\ (IntegratorField(after) > 0 /\ IntegratorField(after) < cfg.MAX_COUNT)
                => FlagBit(before) = FlagBit(after)
    /\ \A e \in engines : \A n \in 1 .. Len(log[e]) :
          (ValidPolicy /\ HighAt(e, n) /= HighAt(e, n - 1))
          => CountAt(e, n) = (IF HighAt(e, n) THEN cfg.MAX_COUNT ELSE 0)

\* A poll has just flipped the flag to 1, after an earlier poll that left the
\* integrator strictly inside (0, integrator_max).
C4_Witness ==
    /\ last.op = "poll" /\ last.res = "Ok" /\ last.eng = "A"
    /\ cfg.MAX_COUNT = 3
    /\ FlagBit(last.before.storage) = 0
    /\ FlagBit(storage["A"]) = 1
    /\ \E n \in 1 .. Len(log["A"]) :
          CountAt("A", n) = 1 /\ HighAt("A", n) /\ HighAt("A", n - 1)

\* The kind of the most recent saturation event among the first n polls of e,
\* the initial value counting as the first one.
RECURSIVE LastSaturation(_, _)
LastSaturation(e, n) ==
    IF n = 0 THEN (IF cfg.INIT_HIGH THEN "max" ELSE "zero")
    ELSE IF CountAt(e, n) = cfg.MAX_COUNT THEN "max"
    ELSE IF CountAt(e, n) = 0 THEN "zero"
    ELSE LastSaturation(e, n - 1)

\* C5: the logical-state flag is 1 iff the debouncer is initialized and the
\* most recent saturation of its integrator since the last init was at
\* integrator_max rather than at 0.
C5_FlagTracksLastSaturation ==
    \A e \in engines :
        ValidPolicy
        => ((FlagBit(storage[e]) = 1)
            <=> (Initialized(e) /\ LastSaturation(e, Len(log[e])) = "max"))

\* The flag is 1 with the integrator strictly inside, two polls after the
\* integrator saturated at integrator_max, on a debouncer that started low.
C5_Witness ==
    /\ ~cfg.INIT_HIGH
    /\ cfg.MAX_COUNT = 3
    /\ Initialized("A")
    /\ Len(log["A"]) = 5
    /\ CountAt("A", 3) = 3
    /\ IntegratorField(storage["A"]) = 1
    /\ FlagBit(storage["A"]) = 1

Saturated(e, n) ==
    \/ CountAt(e, n) = 0 /\ ~HighAt(e, n)
    \/ CountAt(e, n) = cfg.MAX_COUNT /\ HighAt(e, n)

\* Samples a .. b of e strictly alternate.
Alternating(e, a, b) == \A x \in a .. b - 1 : log[e][x].low /= log[e][x + 1].low

\* C6: for MAX_COUNT > 1, once the view is high with the integrator at
\* integrator_max, k consecutive low samples leave it high iff k < MAX_COUNT;
\* and from a saturated state a strictly alternating run of samples of any
\* length never flips the view.
C6_HysteresisAndAlternation ==
    \A e \in engines :
        (ValidPolicy /\ cfg.MAX_COUNT > 1 /\ Initialized(e))
        => \A i \in 0 .. Len(log[e]) :
              /\ (HighAt(e, i) /\ CountAt(e, i) = cfg.MAX_COUNT)
                 => \A k \in 1 .. Len(log[e]) - i :
                       (\A j \in i + 1 .. i + k : log[e][j].low)
                       => (HighAt(e, i + k) <=> k < cfg.MAX_COUNT)
              /\ Saturated(e, i)
                 => \A j \in i + 1 .. Len(log[e]) :
                       Alternating(e, i + 1, j) => HighAt(e, j) = HighAt(e, i)

\* High, High, Low, Low, High, Low on MAX_COUNT = 2: high through the first
\* low, low at the second, and the alternation that follows does not flip it.
C6_Witness ==
    /\ cfg.MAX_COUNT = 2
    /\ ~cfg.INIT_HIGH
    /\ Initialized("A")
    /\ Len(log["A"]) = 6
    /\ HighAt("A", 2) /\ CountAt("A", 2) = 2
    /\ log["A"][3].low /\ HighAt("A", 3)
    /\ log["A"][4].low /\ ~HighAt("A", 4)
    /\ Alternating("A", 5, 6) /\ CountAt("A", 5) = 1
    /\ FlagBit(storage["A"]) = 0

RECURSIVE NumLow(_, _)
NumLow(e, n) ==
    IF n = 0 THEN 0 ELSE NumLow(e, n - 1) + (IF log[e][n].low THEN 1 ELSE 0)

\* C7: a successful init leaves exactly: init flag set, and flag 1 with the
\* integrator at integrator_max (INIT_HIGH) or flag 0 with integrator 0; so an
\* INIT_HIGH debouncer reads high until the clamped accumulator has fallen from
\* MAX_COUNT to 0 (at least MAX_COUNT low samples), and the other reads low
\* until the accumulator has risen to MAX_COUNT.
C7_InitWritesInitialState ==
    /\ (last.op = "init" /\ last.res = "Ok")
       => /\ storage[last.eng] = 2 + (IF cfg.INIT_HIGH THEN 1 + 4 * cfg.MAX_COUNT ELSE 0)
          /\ InitBit(storage[last.eng]) = 1
          /\ FlagBit(storage[last.eng]) = (IF cfg.INIT_HIGH THEN 1 ELSE 0)
          /\ IntegratorField(storage[last.eng]) = InitAcc
          /\ pin[last.eng] = last.arg
    /\ \A e \in engines :
          (ValidPolicy /\ Initialized(e))
          => /\ Len(log[e]) = 0 => (FlagBit(storage[e]) = 1 <=> cfg.INIT_HIGH)
             /\ \A n \in 1 .. Len(log[e]) :
                   /\ (cfg.INIT_HIGH /\ ~HighAt(e, n))
                      => /\ NumLow(e, n) >= cfg.MAX_COUNT
                         /\ \E j \in 1 .. n : RefAcc(e, j) = 0
                   /\ (~cfg.INIT_HIGH /\ HighAt(e, n))
                      => \E j \in 1 .. n : RefAcc(e, j) = cfg.MAX_COUNT

\* An INIT_HIGH debouncer with the largest MAX_COUNT a u8 holds has just been
\* initialized: every bit of the word is set.
C7_Witness ==
    /\ last.op = "init" /\ last.res = "Ok" /\ last.eng = "A"
    /\ cfg.INIT_HIGH
    /\ cfg.MAX_COUNT = 2 ^ (StorageBits - 2) - 1
    /\ last.before.storage = 0
    /\ storage["A"] = Modulus - 1

\* C8: a poll of a debouncer whose init flag is clear fails with
\* PollError::Init, does not read the pin and leaves the word zero; a poll of an
\* initialized one never fails that way.
C8_PollUninitialized ==
    last.op = "poll"
    => /\ (InitBit(last.before.storage) = 0) <=> (last.res = "PollError::Init")
       /\ InitBit(last.before.storage) = 0
          => /\ ~last.read
             /\ last.before.storage = 0
             /\ storage[last.eng] = 0
             /\ pin[last.eng] = last.before.pin
             /\ pin[last.eng] = Uninit
             /\ views = last.before.views

\* Debouncer A was polled while uninitialized and B, initialized, is untouched.
C8_Witness ==
    /\ last.op = "poll" /\ last.eng = "A"
    /\ last.res = "PollError::Init"
    /\ storage["A"] = 0
    /\ engines = Engines
    /\ Initialized("B")

\* C9: when the pin read fails in a poll of an initialized debouncer, the poll
\* returns PollError::Pin with the pin's error and the word is what it was; the
\* integrator keeps following the successful samples alone, each successful
\* poll starting from the word the previous successful poll left.
C9_PinErrorKeepsState ==
    /\ (last.op = "poll" /\ InitBit(last.before.storage) = 1)
       => /\ last.read
          /\ (~last.arg.ok)
             => /\ last.res = "PollError::Pin"
                /\ last.ret = last.arg.err
                /\ storage[last.eng] = last.before.storage
                /\ pin[last.eng] = last.before.pin
                /\ views = last.before.views
          /\ last.arg.ok
             => /\ last.res = "Ok"
                /\ Len(log[last.eng]) >= 1
                /\ last.before.storage
                      = 2 + 4 * CountAt(last.eng, Len(log[last.eng]) - 1)
                          + (IF HighAt(last.eng, Len(log[last.eng]) - 1) THEN 1 ELSE 0)
    /\ \A e \in engines :
          (ValidPolicy /\ Initialized(e))
          => IntegratorField(storage[e]) = RefAcc(e, Len(log[e]))

\* A read failed with error e2 after two counts had accumulated on A.
C9_Witness ==
    /\ last.op = "poll" /\ last.eng = "A"
    /\ last.res = "PollError::Pin"
    /\ last.ret = "e2"
    /\ cfg.MAX_COUNT = 3
    /\ ~cfg.INIT_HIGH
    /\ Len(log["A"]) = 2
    /\ IntegratorField(storage["A"]) = 2

\* C10: init of a debouncer whose init flag is set fails with InitError and
\* changes nothing: word, stored pin and live views are as before and no view
\* is returned; init fails that way only then.
C10_InitTwiceFails ==
    last.op = "init"
    => /\ (InitBit(last.before.storage) = 1) <=> (last.res = "InitError")
       /\ InitBit(last.before.storage) = 1
          => /\ last.ret = "none"
             /\ storage[last.eng] = last.before.storage
             /\ pin[last.eng] = last.before.pin
             /\ pin[last.eng] /= last.arg
             /\ views = last.before.views

\* A second init, with another pin, was refused after two polls had counted.
C10_Witness ==
    /\ last.op = "init" /\ last.eng = "A"
    /\ last.res = "InitError"
    /\ last.arg = "p2"
    /\ pin["A"] = "p1"
    /\ cfg.MAX_COUNT = 3
    /\ IntegratorField(storage["A"]) = 2
    /\ views["A"] = 1

\* The word a fresh init is documented to write.
ExpectedInitWord == 2 + 4 * InitAcc + (IF InitHigh THEN 1 ELSE 0)

\* The word one successful poll is documented to leave, from word w and the
\* low-read `low`: the integrator moves one count toward the sample within
\* [0, MAX_COUNT] and the flag follows it at either end.
RefPoll(w, low) ==
    LET c == IF low
             THEN Max(0, IntegratorField(w) - 1)
             ELSE Min(cfg.MAX_COUNT, IntegratorField(w) + 1)
        f == IF low
             THEN (IF c = 0 THEN 0 ELSE FlagBit(w))
             ELSE (IF c = cfg.MAX_COUNT THEN 1 ELSE FlagBit(w))
    IN 4 * c + 2 * InitBit(w) + f

\* C11: deinit of an initialized debouncer with a Debounced pin that borrows
\* another debouncer's storage fails with DeinitError::Pin, hands that same
\* pin back still live, and leaves every word, the stored pin and the record
\* of polls as they were; the debouncer is still initialized and pollable.
C11_MismatchedViewRefused ==
    (last.op = "deinit" /\ InitBit(last.before.storage) = 1)
    => /\ (last.arg /= last.eng) <=> (last.res = "DeinitError::Pin")
       /\ last.arg /= last.eng
          => /\ last.ret = last.arg
             /\ views = last.before.views
             /\ views[last.arg] > 0
             /\ storage = last.before.words
             /\ pin[last.eng] = last.before.pin
             /\ pin[last.eng] \in Pins
             /\ log[last.eng] = last.before.log
             /\ Initialized(last.eng)
             /\ \A r \in IsLowResults :
                   poll_linted(storage[last.eng], r).res /= "PollError::Init"

\* A, one poll into its count, was asked to deinit with B's Debounced pin.
C11_Witness ==
    /\ last.op = "deinit" /\ last.eng = "A" /\ last.arg = "B"
    /\ last.res = "DeinitError::Pin"
    /\ last.ret = "B"
    /\ cfg.MAX_COUNT = 3
    /\ IntegratorField(storage["A"]) = 1
    /\ views["A"] = 1 /\ views["B"] = 1

\* C12: a deinit of an initialized debouncer with its own Debounced pin
\* succeeds, zeroes the whole word, empties the pin slot and returns the pin
\* the latest successful init was given, whatever polls came in between; init
\* then succeeds again.
C12_ReleaseReturnsPin ==
    /\ last.op = "deinit"
       => /\ (InitBit(last.before.storage) = 1 /\ last.arg = last.eng)
                <=> (last.res = "Ok")
          /\ last.res = "Ok"
             => /\ storage[last.eng] = 0
                /\ pin[last.eng] = Uninit
                /\ last.ret \in Pins
                /\ last.ret = given[last.eng]
                /\ last.ret = last.before.pin
                /\ views[last.eng] = last.before.views[last.eng] - 1
                /\ \A p \in Pins :
                      init_call(storage[last.eng], pin[last.eng], p).res = "Ok"
    /\ \A e \in engines : Initialized(e) => pin[e] = given[e]

\* A was released after three polls and handed back p2.
C12_Witness ==
    /\ last.op = "deinit" /\ last.eng = "A" /\ last.res = "Ok"
    /\ Len(last.before.log) = 3
    /\ last.before.storage > 3
    /\ last.ret = "p2"
    /\ storage["A"] = 0

\* The flag the documented hysteresis gives after the first n recorded polls.
RECURSIVE RefHigh(_, _)
RefHigh(e, n) ==
    IF n = 0 THEN InitHigh
    ELSE IF RefAcc(e, n) = cfg.MAX_COUNT THEN TRUE
    ELSE IF RefAcc(e, n) = 0 THEN FALSE
    ELSE RefHigh(e, n - 1)

RefWord(e, n) == 4 * RefAcc(e, n) + 2 + (IF RefHigh(e, n) THEN 1 ELSE 0)

\* C13: whatever was polled before it, deinit followed by init with a fresh
\* pin leaves the very word a first init leaves, and from then on the word is
\* the one a fresh debouncer has after the same samples.
C13_ReinitReproducesInitialState ==
    /\ (last.op = "init" /\ last.res = "Ok")
       => /\ storage[last.eng] = ExpectedInitWord
          /\ log[last.eng] = <<>>
          /\ given[last.eng] = last.arg
    /\ (last.op = "deinit" /\ last.res = "Ok")
       => \A p \in Pins :
             /\ init_call(storage[last.eng], pin[last.eng], p).res = "Ok"
             /\ init_call(storage[last.eng], pin[last.eng], p).storage = ExpectedInitWord
    /\ \A e \in engines :
          (ValidPolicy /\ Initialized(e)) => storage[e] = RefWord(e, Len(log[e]))

\* A has been initialized a second time, with another pin than the first.
C13_Witness ==
    /\ last.op = "init" /\ last.res = "Ok" /\ last.eng = "A"
    /\ last.before.given \in Pins
    /\ last.before.given /= last.arg
    /\ cfg.INIT_HIGH /\ cfg.MAX_COUNT = 3
    /\ storage["A"] = 15

\* C14: is_high answers true iff bit 0 of the word is 1 and is_low iff it is
\* 0, so exactly one of them is true; neither fails, neither depends on the
\* other bits, neither changes anything.
C14_ViewReadsComplementary ==
    /\ \A e \in engines :
          /\ is_high(storage[e]) <=> FlagBit(storage[e]) = 1
          /\ is_low(storage[e]) <=> FlagBit(storage[e]) = 0
          /\ is_high(storage[e]) /= is_low(storage[e])
    /\ last.op \in {"is_high", "is_low"}
       => /\ last.res = "Ok"
          /\ last.ret = (FlagBit(storage[last.eng]) = (IF last.op = "is_high" THEN 1 ELSE 0))
          /\ storage = last.before.words
          /\ pin[last.eng] = last.before.pin
          /\ views = last.before.views
          /\ log[last.eng] = last.before.log

\* is_low answered false on a word whose integrator has decayed to 1 of 3.
C14_Witness ==
    /\ last.op = "is_low" /\ last.eng = "A"
    /\ last.ret = FALSE
    /\ cfg.MAX_COUNT = 3
    /\ IntegratorField(storage["A"]) = 1
    /\ InitBit(storage["A"]) = 1

\* C15: bit 1 goes 0 -> 1 in a successful init, 1 -> 0 in a successful deinit
\* and is left alone by every other call; no call touches another debouncer's
\* word; a successful poll moves the integrator field by at most one count,
\* without wrapping the word, and a failed call leaves the word as it was.
C15_InitFlagFrame ==
    last.op /= "uninit"
    => LET b == last.before.storage
           a == storage[last.eng]
       IN /\ \A f \in engines \ {last.eng} : storage[f] = last.before.words[f]
          /\ IF last.op = "init" /\ last.res = "Ok"
             THEN InitBit(b) = 0 /\ InitBit(a) = 1
             ELSE IF last.op = "deinit" /\ last.res = "Ok"
             THEN InitBit(b) = 1 /\ InitBit(a) = 0
             ELSE InitBit(a) = InitBit(b)
          /\ last.res /= "Ok" => a = b
          /\ (last.op = "poll" /\ last.res = "Ok")
             => /\ IntegratorField(a) - IntegratorField(b) \in {-1, 0, 1}
                /\ IntegratorField(a) > IntegratorField(b) => b + 4 < Modulus
                /\ IntegratorField(a) < IntegratorField(b) => b - 4 >= 0
                /\ a - b \in {-5, -4, 0, 4, 5}

\* On a u8 with MAX_COUNT = 63 a poll took the word from 251 to 255.
C15_Witness ==
    /\ last.op = "poll" /\ last.res = "Ok" /\ last.eng = "A"
    /\ cfg.MAX_COUNT = 2 ^ (StorageBits - 2) - 1
    /\ last.before.storage = Modulus - 5
    /\ storage["A"] = Modulus - 1

\* C16: init on a policy whose MAX_COUNT needs more than StorageBits - 2 bits
\* panics before anything is written: every word stays zero, no pin is stored,
\* no Debounced pin exists, the pin is never sampled and every poll fails with
\* PollError::Init. For every smaller MAX_COUNT the check passes.
C16_OversizedMaxCountRefused ==
    /\ last.op = "init"
       => ((cfg.MAX_COUNT >= 2 ^ (StorageBits - 2)) <=> (last.res = "panic"))
    /\ cfg.MAX_COUNT >= 2 ^ (StorageBits - 2)
       => /\ \A e \in engines :
                /\ storage[e] = 0
                /\ pin[e] = Uninit
                /\ views[e] = 0
                /\ given[e] = "none"
                /\ log[e] = <<>>
                /\ \A r \in IsLowResults :
                      poll_linted(storage[e], r).res = "PollError::Init"
          /\ ~last.read
          /\ last.op = "poll" => last.res = "PollError::Init"

\* init was called on a u8 policy with MAX_COUNT = 255.
C16_Witness ==
    /\ last.op = "init" /\ last.res = "panic"
    /\ cfg.MAX_COUNT = Modulus - 1
    /\ storage[last.eng] = 0

\* The read that `last` records was made while a poll of the same debouncer
\* was in flight in context c.
ReadDuringTick(c) ==
    /\ last.op \in {"is_high", "is_low"}
    /\ last.before.calls[c].op = "poll"
    /\ last.before.calls[c].eng = last.eng
    /\ InitBit(last.before.calls[c].before.storage) = 1

\* The word before the tick in flight in context c at the recorded read, and
\* the word that tick is to leave: the reference tick on the sample once the
\* pin has answered, the word before it while it has not or when the read
\* failed.
PreTickWord(c) == last.before.calls[c].before.storage
PostTickWord(c) ==
    LET k == last.before.calls[c]
    IN IF k.sampled /\ k.r.ok THEN RefPoll(PreTickWord(c), k.r.val) ELSE PreTickWord(c)

\* C17 as stated: with one serialized writer running poll statement by
\* statement and Debounced reads in between, every word a read loads during a
\* tick is the word before that tick or the word after it.
C17_ReaderLoadsPreOrPostWord ==
    ValidPolicy
    => \A c \in Contexts :
          ReadDuringTick(c)
          => last.before.storage \in {PreTickWord(c), PostTickWord(c)}

\* C17: with one serialized writer running poll statement by statement and
\* Debounced reads in between, a read during a tick loads the word before the
\* tick, the word after it, or the word between the tick's two stores, which
\* has the integrator of the word after and the flag of the word before; the
\* flag the read answers with is the flag before or the flag after the tick,
\* and the word the tick leaves on return is the reference tick's.
C17_ReaderSeesPreOrPostFlag ==
    ValidPolicy
    => /\ \A c \in Contexts :
             ReadDuringTick(c)
             => LET w == last.before.storage
                    pre == PreTickWord(c)
                    post == PostTickWord(c)
                IN /\ w \in {pre, post, 4 * IntegratorField(post) + 2 + FlagBit(pre)}
                   /\ FlagBit(w) \in {FlagBit(pre), FlagBit(post)}
                   /\ last.op = "is_high" => (last.ret <=> FlagBit(w) = 1)
                   /\ last.op = "is_low" => (last.ret <=> FlagBit(w) = 0)
       /\ (last.op = "poll" /\ last.res = "Ok")
          => storage[last.eng] = RefPoll(last.before.storage, last.arg.val)

\* A read between the two stores of a tick that turns the flag on: it loaded
\* integrator 3 with the flag still clear and answered "not high".
C17_Witness ==
    /\ cfg.MAX_COUNT = 3
    /\ last.op = "is_high" /\ ~last.ret
    /\ \E c \in Contexts :
          /\ ReadDuringTick(c)
          /\ PreTickWord(c) = 10
          /\ last.before.storage = 14
          /\ PostTickWord(c) = 15

\* C18 as stated: every successful poll moves the integrator by exactly one
\* count, up on a not-low sample and down on a low one.
C18_AlwaysExactlyOneCount ==
    (last.op = "poll" /\ last.res = "Ok" /\ ValidPolicy)
    => IntegratorField(storage[last.eng])
          = IntegratorField(last.before.storage) + (IF last.arg.val THEN -1 ELSE 1)

\* C18, amended: every successful poll takes exactly one of the two arms: the
\* integrator moves one count up on a not-low sample and one count down on a
\* low one, except that it stays where it is when it is already at
\* integrator_max (not-low) or at 0 (low); it never moves against the sample.
C18_OneCountUnlessSaturated ==
    (last.op = "poll" /\ last.res = "Ok" /\ ValidPolicy)
    => LET b == IntegratorField(last.before.storage)
           a == IntegratorField(storage[last.eng])
       IN IF last.arg.val
          THEN a = (IF b = 0 THEN 0 ELSE b - 1)
          ELSE a = (IF b = cfg.MAX_COUNT THEN cfg.MAX_COUNT ELSE b + 1)

\* A not-low sample found the integrator at integrator_max and left it there.
C18_Witness ==
    /\ last.op = "poll" /\ last.res = "Ok"
    /\ cfg.MAX_COUNT = 3
    /\ ~last.arg.val
    /\ IntegratorField(last.before.storage) = 3
    /\ IntegratorField(storage[last.eng]) = 3

\* C19: the word a successful poll leaves is decided by the word before it and
\* the low-read alone: low = true counts down, low = false counts up, whatever
\* the pin would answer to is_high().
C19_DirectionFromLowReadOnly ==
    (last.op = "poll" /\ last.res = "Ok" /\ ValidPolicy)
    => /\ storage[last.eng] = RefPoll(last.before.storage, last.arg.val)
       /\ (~last.arg.val /\ IntegratorField(last.before.storage) < cfg.MAX_COUNT)
          => IntegratorField(storage[last.eng]) = IntegratorField(last.before.storage) + 1
       /\ (last.arg.val /\ IntegratorField(last.before.storage) > 0)
          => IntegratorField(storage[last.eng]) = IntegratorField(last.before.storage) - 1

\* The pin answered low = false and high = false, and the integrator went up.
C19_Witness ==
    /\ last.op = "poll" /\ last.res = "Ok" /\ last.eng = "A"
    /\ ~last.arg.val /\ ~last.arg.high
    /\ cfg.MAX_COUNT = 3
    /\ IntegratorField(last.before.storage) = 1
    /\ IntegratorField(storage["A"]) = 2

\* C20: at every statement of init and deinit, a set init flag implies that
\* the pin slot holds a pin. init writes the pin first and then the whole
\* state word (init flag, integrator, state flag) in one store, so during init
\* the word is the one found or the complete initial word; deinit zeroes the
\* word first and only then takes the pin out, so during deinit the word is
\* the one found or zero, and zero once the slot is empty.
C20_InitFlagImpliesPin ==
    /\ \A e \in engines : Initialized(e) => pin[e] \in Pins
    /\ \A c \in Contexts :
          LET k == calls[c]
          IN /\ k.op = "init"
                => /\ storage[k.eng] \in {k.before.storage, ExpectedInitWord}
                   /\ pin[k.eng] = Uninit => storage[k.eng] = k.before.storage
             /\ k.op = "deinit"
                => /\ storage[k.eng] \in {k.before.storage, zero}
                   /\ pin[k.eng] /= k.before.pin
                      => (storage[k.eng] = zero /\ pin[k.eng] = Uninit)

\* deinit of an initialized debouncer is past its store of zero and has not
\* yet taken the pin out of the slot.
C20_Witness ==
    \E c \in Contexts :
        /\ calls[c].op = "deinit" /\ calls[c].eng = "A"
        /\ InitBit(calls[c].before.storage) = 1
        /\ storage["A"] = zero
        /\ pin["A"] \in Pins
        /\ calls[c].taken = "none"

\* C21: the pin is read by a poll of an initialized debouncer, once, and by
\* nothing else. Every call records whether it read the pin: a poll does
\* exactly when the init flag was set, whether the read succeeds or fails;
\* init, deinit, a poll that fails with PollError::Init and the reads of a
\* Debounced do not, and a Debounced answers from the state word alone. The
\* samples arrive in poll order: each successful poll adds its own sample as
\* the last entry of the record of polls, after those already there.
C21_PinReadOncePerPoll ==
    /\ last.read <=> (last.op = "poll" /\ InitBit(last.before.storage) = 1)
    /\ last.op \in {"init", "deinit", "is_high", "is_low", "uninit"} => ~last.read
    /\ (last.op = "poll" /\ last.res = "PollError::Init") => ~last.read
    /\ (last.op = "poll" /\ last.res = "Ok")
       => /\ last.arg.ok
          /\ log[last.eng] = Append(last.before.log,
                                    [low |-> last.arg.val, word |-> storage[last.eng]])
    /\ (last.op = "poll" /\ last.res /= "Ok") => log[last.eng] = last.before.log
    /\ last.op \in {"is_high", "is_low"}
       => /\ log = [e \in engines |-> IF e = last.eng THEN last.before.log ELSE log[e]]
          /\ pin[last.eng] = last.before.pin
          /\ last.ret <=> (FlagBit(last.before.storage) = 1) = (last.op = "is_high")

\* The third poll since init read the pin as not low after a low and a not-low
\* sample; three polls, three samples, in that order.
C21_Witness ==
    /\ last.op = "poll" /\ last.res = "Ok" /\ last.eng = "A" /\ last.read
    /\ Len(log["A"]) = 3
    /\ log["A"][1].low /\ ~log["A"][2].low /\ ~log["A"][3].low
    /\ ~last.arg.val

\* C22 as stated: init, poll and deinit on one debouncer lead to a state in
\* which two or more Debounced pins borrow that debouncer's storage at once.
C22_TwoViewsCoexist == <>(\E e \in engines : views[e] >= 2)

\* C22: at most one Debounced pin borrows a debouncer's storage at any time.
\* init hands one out only when none is live, and while one is live init
\* fails with InitError and hands out none; the next one can only come from
\* an init after the deinit that consumed the previous one.
C22_AtMostOneView ==
    /\ \A e \in engines : views[e] <= 1
    /\ last.op = "init"
       => /\ last.res = "Ok" => (last.before.views[last.eng] = 0 /\ views[last.eng] = 1)
          /\ last.before.views[last.eng] >= 1
             => (last.res /= "Ok" /\ views = last.before.views)

\* init was called on A while its Debounced pin was live: refused, still one.
C22_Witness ==
    /\ last.op = "init" /\ last.eng = "A"
    /\ last.res = "InitError"
    /\ last.before.views["A"] = 1
    /\ views["A"] = 1
    /\ last.before.log /= <<>>

\* C23: while the unsafe methods are called from one context alone, so that
\* at most one of init, poll and deinit is in flight, the integrator never
\* exceeds MAX_COUNT at any statement; the state in which it does is reached
\* only when a second context enters poll while a poll is in flight (the
\* witness).
C23_SerializedStaysInRange ==
    DOMAIN calls = {"isr"}
    => \A e \in engines :
          /\ IntegratorField(storage[e]) <= cfg.MAX_COUNT
          /\ BitAnd(storage[e], integrator_mask) <= integrator_max

\* Two polls of A overlapped with MAX_COUNT = 3: both passed the
\* integrator_is_max check below the maximum and both added one, leaving the
\* integrator at 4 with no call in flight.
C23_Witness ==
    /\ DOMAIN calls = Contexts
    /\ cfg.MAX_COUNT = 3
    /\ Initialized("A")
    /\ IntegratorField(storage["A"]) = 4
    /\ BitAnd(storage["A"], integrator_mask) > integrator_max
    /\ AllIdle
    /\ last.op = "poll" /\ last.res = "Ok"

\* C24: between operations, in every initialized state of a policy with
\* MAX_COUNT >= 1, the flag and the integrator agree with hysteresis: flag 1
\* implies integrator > 0 and flag 0 implies integrator < integrator_max.
C24_FlagConsistentWithIntegrator ==
    \A e \in engines :
        (cfg.MAX_COUNT >= 1 /\ Initialized(e))
        => /\ FlagBit(storage[e]) = 1 => IntegratorField(storage[e]) > 0
           /\ FlagBit(storage[e]) = 0 => IntegratorField(storage[e]) < cfg.MAX_COUNT
           /\ FlagBit(storage[e]) = 0
              => BitAnd(storage[e], integrator_mask) /= integrator_max

\* Two low samples after an INIT_HIGH init with MAX_COUNT = 3: still high, with
\* the integrator one above zero.
C24_Witness ==
    /\ cfg.MAX_COUNT = 3 /\ cfg.INIT_HIGH
    /\ Initialized("A")
    /\ Len(log["A"]) = 2
    /\ log["A"][1].low /\ log["A"][2].low
    /\ FlagBit(storage["A"]) = 1
    /\ IntegratorField(storage["A"]) = 1

\* The last MAX_COUNT successful polls of e all read low = `low`.
RecentAll(e, low) ==
    /\ Len(log[e]) >= cfg.MAX_COUNT
    /\ \A j \in Len(log[e]) - cfg.MAX_COUNT + 1 .. Len(log[e]) : log[e][j].low = low

\* Every poll performed on e reads the pin successfully as low = `low`, and e
\* stays initialized.
SteadyInput(e, low) ==
    /\ Initialized(e)
    /\ last.op = "poll" => (last.res = "Ok" /\ last.read /\ last.arg.val = low)

\* C25: from any initialized state, MAX_COUNT consecutive successful not-low
\* polls leave the flag set and MAX_COUNT consecutive successful low polls
\* leave it clear, whatever the word was before them; hence, with poll called
\* again and again, once the debouncer stays initialized and every read
\* succeeds with the same answer, the flag comes to equal the raw input and
\* stays equal.
C25_BoundedResponse ==
    /\ [](\A e \in engines :
             Initialized(e)
             => /\ RecentAll(e, FALSE) => FlagBit(storage[e]) = 1
                /\ RecentAll(e, TRUE) => FlagBit(storage[e]) = 0)
    /\ \A e \in {"A"} :
          /\ <>[]SteadyInput(e, FALSE) => <>[](FlagBit(storage[e]) = 1)
          /\ <>[]SteadyInput(e, TRUE) => <>[](FlagBit(storage[e]) = 0)

\* With MAX_COUNT = 3 and the flag set, the third of three low samples in a
\* row has just cleared it.
C25_Witness ==
    /\ cfg.MAX_COUNT = 3
    /\ Initialized("A")
    /\ last.op = "poll" /\ last.res = "Ok" /\ last.arg.val
    /\ RecentAll("A", TRUE)
    /\ FlagBit(log["A"][2].word) = 1
    /\ FlagBit(storage["A"]) = 0
    /\ last.before.log /= <<>> /\ Len(last.before.log) = 3
    /\ ~last.before.log[1].low

\* C26: deinit of a debouncer whose init flag is clear fails with
\* DeinitError::Init whatever Debounced pin it is given, and it fails that way
\* only then: the init check comes before the storage comparison, the pin
\* given (which borrows another debouncer's storage) is consumed and not
\* handed back, and this debouncer's word stays zero with its slot empty; the
\* other words are untouched.
C26_ReleaseUninitialized ==
    last.op = "deinit"
    => /\ (InitBit(last.before.storage) = 0) <=> (last.res = "DeinitError::Init")
       /\ InitBit(last.before.storage) = 0
          => /\ last.arg /= last.eng
             /\ last.ret = "none"
             /\ views = [last.before.views EXCEPT ![last.arg] = @ - 1]
             /\ last.before.storage = 0
             /\ storage = last.before.words
             /\ storage[last.eng] = 0
             /\ pin[last.eng] = Uninit
             /\ pin[last.eng] = last.before.pin
             /\ log[last.eng] = last.before.log

\* Uninitialized A was asked to deinit with B's Debounced pin: B is still
\* initialized, and its only Debounced pin is gone.
C26_Witness ==
    /\ last.op = "deinit" /\ last.eng = "A" /\ last.arg = "B"
    /\ last.res = "DeinitError::Init"
    /\ storage["A"] = 0
    /\ Initialized("B")
    /\ last.before.views["B"] = 1
    /\ views["B"] = 0

\* C27: a live Debounced pin that borrows a debouncer's storage exists only
\* while that debouncer's init flag is set. Only a successful init creates
\* one, for the debouncer it initializes, and the successful deinit that
\* zeroes the word consumes it; so every read through a Debounced pin loads the
\* word of an initialized debouncer, initialized by the init that created that
\* pin, and never the zeroed word of a released one.
C27_ViewOnlyWhileInitialized ==
    /\ \A e \in engines : views[e] > 0 => (Initialized(e) /\ pin[e] = given[e])
    /\ \A e \in engines :
          (last.eng /= e \/ ~(last.op = "init" /\ last.res = "Ok"))
          => (last.op = "uninit" \/ views[e] <= last.before.views[e])
    /\ (last.op = "deinit" /\ last.res = "Ok")
       => (views[last.eng] = 0 /\ storage[last.eng] = zero)
    /\ last.op \in {"is_high", "is_low"}
       => /\ InitBit(last.before.storage) = 1
          /\ last.before.pin = given[last.eng]

\* Debouncer A was released and initialized again with the other pin; the
\* Debounced pin now read through is the one the second init returned.
C27_Witness ==
    /\ last.op = "is_high" /\ last.eng = "A"
    /\ views["A"] = 1
    /\ given["A"] = "p2"
    /\ pin["A"] = "p2"
    /\ engines = {"A"}
    /\ Initialized("A")

====
